---- MODULE Spec2Model ----
(***************************************************************************)
(* GreyNoise IP ETL connector (src/etl_connector.py): the batch runner     *)
(* run_batch driving extract (HTTP GET with retry and exponential          *)
(* backoff), transform and load (insert under a unique (ip, fetched_at)    *)
(* index) over a list of IPs, as a state machine.  One action per step of  *)
(* the code between two interactions with its environment (the remote API, *)
(* the wall clock, the MongoDB collection).                                *)
(***************************************************************************)
EXTENDS Integers, Sequences, FiniteSets, TLC

VARIABLES
    cfg,        \* self.cfg: MAX_RETRIES and INITIAL_BACKOFFS
    ips,        \* run_batch's argument ips
    dry_run,    \* run_batch's argument dry_run
    pc,         \* position of run_batch / extract
    idx,        \* position of the for loop of run_batch in ips (1-based)
    ip,         \* the loop variable ip, stripped
    attempt,    \* extract's loop variable attempt
    backoff,    \* extract's local backoff
    raw,        \* what extract returned
    doc,        \* what transform returned
    summary,    \* run_batch's local summary
    results,    \* what run_batch returned to its caller
    col,        \* self.col: the documents of the collection, in insertion order
    clock,      \* the wall clock read by now_iso
    gets,       \* history: HTTP GETs sent by the current extract call
    sleeps,     \* history: durations of the time.sleep calls of the current extract call
    retriedBy,  \* history: what made the current extract call sleep and retry
    lastResp,   \* history: what the last GET of the current extract call met
    calls,      \* history: the pipeline functions run_batch called for the current ip
    loadError,  \* history: the exception that left load and run_batch, if any
    args_ips,   \* __main__: args.ips, the --ips override of the command line
    fs          \* the file system: the file INPUT_FILE names, if any

vars == <<cfg, ips, dry_run, pc, idx, ip, attempt, backoff, raw, doc, summary,
          results, col, clock, gets, sleeps, retriedBy, lastResp, calls, loadError,
          args_ips, fs>>

-----------------------------------------------------------------------------
(* Bounds of the model *)

MaxBatch == 2
MaxRetriesCfg == 2
MaxClock == 2
MaxEnvLen == 3
MaxLines == 2

(* Python's None.  Every value of a document or of a raw record is a record *)
(* (a JSON string s is [str |-> s], a JSON boolean b is [bool |-> b]), so   *)
(* that None can be compared with each of them.                             *)
None == [none |-> TRUE]

-----------------------------------------------------------------------------
(* Strings are sequences of characters, so that str.strip is computed. *)

RECURSIVE LStrip(_)
LStrip(s) ==
    IF s = <<>> THEN s
    ELSE IF Head(s) = " " THEN LStrip(Tail(s)) ELSE s

RECURSIVE RStrip(_)
RStrip(s) ==
    IF s = <<>> THEN s
    ELSE IF s[Len(s)] = " " THEN RStrip(SubSeq(s, 1, Len(s) - 1)) ELSE s

Strip(s) == RStrip(LStrip(s))

(* The entries a caller may pass in ips: blank, padded and plain ones. *)
Entries == { <<" ">>, <<"a", " ">>, <<"b">> }

RECURSIVE SeqsUpTo(_, _)
SeqsUpTo(S, n) ==
    IF n = 0 THEN { <<>> }
    ELSE LET shorter == SeqsUpTo(S, n - 1)
         IN  shorter \cup { Append(s, e) : s \in { t \in shorter : Len(t) = n - 1 }, e \in S }

Batches == SeqsUpTo(Entries, MaxBatch)

-----------------------------------------------------------------------------
(* Configuration, load_env_vars *)

GN_BASE_URL == "https://api.greynoise.io"

(* Values INITIAL_BACKOFFS is configured with, in seconds *)
InitialBackoffs == {1, 3}

Configs ==
    [MAX_RETRIES : (-1) .. MaxRetriesCfg, INITIAL_BACKOFFS : InitialBackoffs]

(* _url_for_ip: the parts of the URL, the ip last *)
UrlForIp(i) == <<GN_BASE_URL, "/v3/ip/">> \o i

-----------------------------------------------------------------------------
(* Raw records and transform *)

(* dict.get(k, default) *)
Get(d, k, default) == IF k \in DOMAIN d THEN d[k] ELSE default

(* {} *)
EmptyDict == [k \in {} |-> None]

(* x or {} *)
OrEmpty(x) == IF x = None THEN EmptyDict ELSE x

(* The sentinel extract returns on a 404 *)
NotFoundRecord(i) == [ip |-> i, _status |-> [str |-> "not_found"]]

(* Bodies the API may answer a 2xx with for ip i: the bare record, and a  *)
(* record with scanner and business intelligence.                         *)
RawRecords(i) ==
    { [ip |-> i],
      [ip |-> i,
       internet_scanner_intelligence |->
           [seen |-> [bool |-> TRUE], classification |-> [str |-> "benign"]],
       business_service_intelligence |-> [found |-> [bool |-> FALSE]]] }

ScannerSummary(isc) ==
    [seen           |-> Get(isc, "seen", None),
     classification |-> Get(isc, "classification", None),
     first_seen     |-> Get(isc, "first_seen", None),
     last_seen      |-> Get(isc, "last_seen", None),
     actor          |-> Get(isc, "actor", None),
     bot            |-> Get(isc, "bot", None),
     vpn            |-> Get(isc, "vpn", None),
     tags           |-> Get(isc, "tags", None)]

(* A faulty transform that builds the summary whether or not the key is there *)
transform_AlwaysSummary(i, r, t1, t2) ==
    [connector                |-> [str |-> "greynoise"],
     ip                       |-> Get(r, "ip", i),
     business_service         |-> Get(r, "business_service_intelligence", None),
     internet_scanner_summary |->
         ScannerSummary(OrEmpty(Get(r, "internet_scanner_intelligence", None))),
     request_metadata         |-> Get(r, "request_metadata", None),
     raw                      |-> IF "_status" \notin DOMAIN r THEN r ELSE None,
     fetched_at               |-> t1,
     ingested_at              |-> t2,
     _source                  |-> [endpoint |-> UrlForIp(i), base_url |-> GN_BASE_URL]]

(* transform(ip, raw), t1 and t2 being what its two now_iso() calls return *)
transform(i, r, t1, t2) ==
    [connector                |-> [str |-> "greynoise"],
     ip                       |-> Get(r, "ip", i),
     business_service         |-> Get(r, "business_service_intelligence", None),
     internet_scanner_summary |->
         IF "internet_scanner_intelligence" \in DOMAIN r
         THEN ScannerSummary(OrEmpty(r["internet_scanner_intelligence"]))
         ELSE None,
     request_metadata         |-> Get(r, "request_metadata", None),
     raw                      |-> IF "_status" \notin DOMAIN r THEN r ELSE None,
     fetched_at               |-> t1,
     ingested_at              |-> t2,
     _source                  |-> [endpoint |-> UrlForIp(i), base_url |-> GN_BASE_URL]]

(* A faulty index created without unique=True *)
DuplicateKey_NotUnique(c, d) == FALSE

(* The unique index on (ip, fetched_at): whether inserting d would violate it *)
DuplicateKey(c, d) ==
    \E k \in 1 .. Len(c) : c[k].ip = d.ip /\ c[k].fetched_at = d.fetched_at

(* The dicts transform may be given for ip i: each of the keys it reads    *)
(* missing or present, the scanner block null, partial or full, and the    *)
(* not-found sentinel.                                                     *)
OptionalKey(k, values) == { EmptyDict } \cup { [x \in {k} |-> v] : v \in values }

ScannerBlocks ==
    { None,
      [seen |-> [bool |-> FALSE]],
      [seen |-> [bool |-> TRUE], classification |-> [str |-> "benign"]] }

TransformInputs(i) ==
    { ((a @@ b) @@ c) @@ d :
          a \in OptionalKey("ip", {i, <<"z">>}),
          b \in OptionalKey("internet_scanner_intelligence", ScannerBlocks),
          c \in OptionalKey("business_service_intelligence", {[found |-> [bool |-> FALSE]]}),
          d \in OptionalKey("request_metadata", {[restricted_fields |-> [bool |-> FALSE]]}) }
    \cup { NotFoundRecord(i) }

-----------------------------------------------------------------------------
(* __main__'s inputs besides the configuration *)

(* args.ips when --ips is not on the command line, and when it is *)
NoOverride == [given |-> FALSE, values |-> <<>>]
Override(values) == [given |-> TRUE, values |-> values]

(* if args.ips: None and the empty list are falsy *)
Truthy(a) == a.given /\ a.values # <<>>

(* No file at the path INPUT_FILE names, and a file of the given lines *)
NoFile == [exists |-> FALSE, lines |-> <<>>]
File(lines) == [exists |-> TRUE, lines |-> lines]

-----------------------------------------------------------------------------
(* parse_ips *)

(* str.split(","): the pieces between the commas, empty ones included *)
RECURSIVE Split(_)
Split(s) ==
    LET commas == { k \in 1 .. Len(s) : s[k] = "," }
    IN  IF commas = {} THEN << s >>
        ELSE LET k == CHOOSE c \in commas : \A d \in commas : c <= d
             IN  << SubSeq(s, 1, k - 1) >> \o Split(SubSeq(s, k + 1, Len(s)))

(* [x.strip() for x in pieces if x.strip()] *)
StripNonEmpty(pieces) ==
    SelectSeq([k \in 1 .. Len(pieces) |-> Strip(pieces[k])], LAMBDA x : x # <<>>)

(* v.startswith("#") *)
IsComment(v) == v # <<>> /\ v[1] = "#"

(* for line in f: v = line.strip(); if v and not v.startswith("#"): append *)
FileEntries(lines) ==
    SelectSeq([k \in 1 .. Len(lines) |-> Strip(lines[k])],
              LAMBDA v : v # <<>> /\ ~IsComment(v))

(* for ip in ips: if ip not in seen: seen.add(ip); out.append(ip) *)
RECURSIVE Dedupe(_, _, _)
Dedupe(rest, seen, out) ==
    IF rest = <<>> THEN out
    ELSE IF Head(rest) \in seen
         THEN Dedupe(Tail(rest), seen, out)
         ELSE Dedupe(Tail(rest), seen \cup {Head(rest)}, Append(out, Head(rest)))

(* A faulty parse_ips that returns the entries without deduplicating them *)
parse_ips_KeepsDuplicates(env_ips, ips_file, files) ==
    (IF env_ips # <<>> THEN StripNonEmpty(Split(env_ips)) ELSE <<>>)
    \o (IF ips_file # "" /\ files.exists THEN FileEntries(files.lines) ELSE <<>>)

(* parse_ips(env_ips, ips_file), files being the file system it reads *)
parse_ips(env_ips, ips_file, files) ==
    LET fromEnv  == IF env_ips # <<>> THEN StripNonEmpty(Split(env_ips)) ELSE <<>>
        fromFile == IF ips_file # "" /\ files.exists
                    THEN FileEntries(files.lines) ELSE <<>>
    IN  Dedupe(fromEnv \o fromFile, {}, <<>>)

(* Values of TARGET_IPS: the strings of at most MaxEnvLen characters *)
EnvChars == {"a", "b", " ", ",", "#"}
EnvStrings == SeqsUpTo(EnvChars, MaxEnvLen)

(* Lines of the file, without their line ends: an entry, a padded entry, *)
(* a comment, a padded comment, a blank line, a line with a comma        *)
Lines ==
    { <<"a">>, <<" ", "b", " ">>, <<"#", "a">>, <<" ", "#">>, <<" ">>, <<"a", ",", "b">> }

(* A path INPUT_FILE may name *)
InputPath == "ips.txt"

-----------------------------------------------------------------------------
(* State after construction, at the call of run_batch *)

Init ==
    /\ cfg \in Configs
    /\ ips \in Batches
    /\ dry_run \in BOOLEAN
    /\ pc = "loop"
    /\ idx = 1
    /\ ip = <<>>
    /\ attempt = 0
    /\ backoff = 0
    /\ raw = None
    /\ doc = None
    /\ summary = <<>>
    /\ results = <<>>
    /\ col = <<>>
    /\ clock = 1
    /\ gets = 0
    /\ sleeps = <<>>
    /\ retriedBy = ""
    /\ lastResp = ""
    /\ calls = {}
    /\ loadError = ""
    /\ args_ips = NoOverride
    /\ fs = NoFile

extractLocals == <<attempt, backoff, gets, sleeps, retriedBy, lastResp>>
batchArgs == <<cfg, ips, dry_run, args_ips, fs>>

-----------------------------------------------------------------------------
(* run_batch: the for loop *)

(* for ip in ips: exhausted, return summary *)
ReturnSummary ==
    /\ pc = "loop"
    /\ idx > Len(ips)
    /\ results' = summary
    /\ pc' = "done"
    /\ UNCHANGED <<batchArgs, idx, ip, extractLocals, raw, doc, summary, col, clock,
                   calls, loadError>>

(* ip = ip.strip(); if not ip: continue *)
SkipBlank ==
    /\ pc = "loop"
    /\ idx <= Len(ips)
    /\ Strip(ips[idx]) = <<>>
    /\ idx' = idx + 1
    /\ UNCHANGED <<batchArgs, pc, ip, extractLocals, raw, doc, summary, results, col,
                   clock, calls, loadError>>

(* A faulty extract that keeps the backoff the previous call ended with *)
BeginExtract_KeepsBackoff ==
    /\ pc = "loop"
    /\ idx <= Len(ips)
    /\ Strip(ips[idx]) # <<>>
    /\ ip' = Strip(ips[idx])
    /\ backoff' = IF backoff = 0 THEN cfg.INITIAL_BACKOFFS ELSE backoff
    /\ attempt' = 1
    /\ gets' = 0
    /\ sleeps' = <<>>
    /\ retriedBy' = ""
    /\ lastResp' = ""
    /\ calls' = {"extract"}
    /\ pc' = "attempt"
    /\ UNCHANGED <<batchArgs, idx, raw, doc, summary, results, col, clock, loadError>>

(* raw = self.extract(ip): the call, up to the head of extract's for loop *)
BeginExtract ==
    /\ pc = "loop"
    /\ idx <= Len(ips)
    /\ Strip(ips[idx]) # <<>>
    /\ ip' = Strip(ips[idx])
    /\ backoff' = cfg.INITIAL_BACKOFFS
    /\ attempt' = 1
    /\ gets' = 0
    /\ sleeps' = <<>>
    /\ retriedBy' = ""
    /\ lastResp' = ""
    /\ calls' = {"extract"}
    /\ pc' = "attempt"
    /\ UNCHANGED <<batchArgs, idx, raw, doc, summary, results, col, clock, loadError>>

(* A faulty run_batch whose except clause lets the error end the batch *)
FetchFailed_Aborts(cause) ==
    /\ pc' = "aborted"
    /\ loadError' = cause
    /\ UNCHANGED <<batchArgs, idx, ip, raw, doc, summary, results, col, clock, calls>>

(* except Exception as e: summary.append({... "status": "error" ...}); continue *)
FetchFailed(cause) ==
    /\ summary' = Append(summary, [ip |-> ip, status |-> "error", error |-> cause])
    /\ idx' = idx + 1
    /\ pc' = "loop"
    /\ UNCHANGED <<batchArgs, ip, raw, doc, results, col, clock, calls, loadError>>

-----------------------------------------------------------------------------
(* extract *)

(* A faulty loop running one attempt more: range(1, MAX_RETRIES + 2) *)
AttemptsLeft_OneMore(a) == a <= cfg.MAX_RETRIES + 1

(* A faulty loop that always makes a first attempt *)
AttemptsLeft_AtLeastOnce(a) == a = 1 \/ a <= cfg.MAX_RETRIES

(* for attempt in range(1, MAX_RETRIES + 1) *)
AttemptsLeft(a) == a <= cfg.MAX_RETRIES

(* A faulty test that never meets the last attempt *)
IsFinalAttempt_OffByOne(a) == a = cfg.MAX_RETRIES + 1

(* if attempt == self.cfg["MAX_RETRIES"] *)
IsFinalAttempt(a) == a = cfg.MAX_RETRIES

(* A faulty backoff growing by one second: backoff += 1 *)
NextBackoff_PlusOne(b) == b + 1

(* backoff *= 2 *)
NextBackoff(b) == b * 2

(* session.get is called and meets r *)
SendGet(r) ==
    /\ pc = "attempt"
    /\ AttemptsLeft(attempt)
    /\ gets' = gets + 1
    /\ lastResp' = r

(* time.sleep(backoff); backoff *= 2; the next iteration.  retriedBy keeps *)
(* the one kind of answer that caused every sleep so far, or "mixed".      *)
SleepAndRetry ==
    /\ sleeps' = Append(sleeps, backoff)
    /\ retriedBy' = IF retriedBy \in {"", lastResp'} THEN lastResp' ELSE "mixed"
    /\ backoff' = NextBackoff(backoff)
    /\ attempt' = attempt + 1
    /\ pc' = "attempt"
    /\ UNCHANGED <<batchArgs, idx, ip, raw, doc, summary, results, col, clock, calls,
                   loadError>>

(* except requests.RequestException as e *)
OnRequestException(cause) ==
    IF IsFinalAttempt(attempt)
    THEN FetchFailed(cause) /\ UNCHANGED <<attempt, backoff, sleeps, retriedBy>>
    ELSE SleepAndRetry

(* extract returns r to run_batch *)
ExtractReturns(r) ==
    /\ raw' = r
    /\ pc' = "fetched"
    /\ UNCHANGED <<batchArgs, idx, ip, attempt, backoff, sleeps, retriedBy, doc, summary,
                   results, col, clock, calls, loadError>>

(* status 404: the sentinel is returned *)
GetNotFound ==
    /\ SendGet("404")
    /\ ExtractReturns(NotFoundRecord(ip))

(* A faulty extract that gives up on a 429 of the last attempt without *)
(* sleeping, as it does on a transport failure                         *)
GetRateLimited_NoFinalSleep ==
    /\ SendGet("429")
    /\ IF IsFinalAttempt(attempt)
       THEN /\ FetchFailed("Failed to fetch after retries")
            /\ UNCHANGED <<attempt, backoff, sleeps, retriedBy>>
       ELSE SleepAndRetry

(* status 429: sleep, double, continue *)
GetRateLimited ==
    /\ SendGet("429")
    /\ SleepAndRetry

(* A faulty extract that calls raise_for_status outside the try: the *)
(* HTTPError leaves extract at once                                   *)
GetHTTPError_NoRetry ==
    /\ SendGet("http_error")
    /\ FetchFailed("HTTPError")
    /\ UNCHANGED <<attempt, backoff, sleeps, retriedBy>>

(* another status of 400..599: raise_for_status raises HTTPError, a *)
(* RequestException, inside the try                                 *)
GetHTTPError ==
    /\ SendGet("http_error")
    /\ OnRequestException("HTTPError")

(* session.get raises: timeout, connection reset, DNS *)
GetTransportFailure ==
    /\ SendGet("transport")
    /\ OnRequestException("ConnectionError")

(* A faulty extract that retries a malformed body on the last attempt too *)
GetMalformedJson_AlwaysRetries ==
    /\ SendGet("bad_json")
    /\ SleepAndRetry

(* a 2xx whose body is not JSON: resp.json() raises.  requests >= 2.27 raises *)
(* requests.JSONDecodeError, a RequestException; older ones a plain           *)
(* ValueError, which leaves extract at once.                                  *)
GetMalformedJson ==
    /\ SendGet("bad_json")
    /\ \E isRequestException \in BOOLEAN :
          IF isRequestException
          THEN OnRequestException("JSONDecodeError")
          ELSE /\ FetchFailed("JSONDecodeError")
               /\ UNCHANGED <<attempt, backoff, sleeps, retriedBy>>

(* a 2xx with a JSON body *)
GetRecord ==
    /\ SendGet("ok")
    /\ \E r \in RawRecords(ip) : ExtractReturns(r)

(* the for loop ends: raise RuntimeError("Failed to fetch after retries") *)
ExtractExhausted ==
    /\ pc = "attempt"
    /\ ~AttemptsLeft(attempt)
    /\ FetchFailed("Failed to fetch after retries")
    /\ UNCHANGED extractLocals

-----------------------------------------------------------------------------
(* run_batch: after extract *)

(* A faulty run_batch that never takes the not-found branch *)
IsNotFound_Never(r) == FALSE

(* raw.get("_status") == "not_found" *)
IsNotFound(r) == Get(r, "_status", None) = [str |-> "not_found"]

(* A faulty run_batch that ignores dry_run *)
Persists_Always == TRUE

(* if dry_run: ... else: self.load(doc) *)
Persists == ~dry_run

(* summary.append({"ip": ip, "status": "Not Found"}); continue *)
RecordNotFound ==
    /\ pc = "fetched"
    /\ IsNotFound(raw)
    /\ summary' = Append(summary, [ip |-> ip, status |-> "Not Found"])
    /\ idx' = idx + 1
    /\ pc' = "loop"
    /\ UNCHANGED <<batchArgs, ip, extractLocals, raw, doc, results, col, clock, calls,
                   loadError>>

(* doc = self.transform(ip, raw): now_iso() is read twice, the wall clock *)
(* moving on or not between the reads; then the dry-run branch            *)
Transform ==
    /\ pc = "fetched"
    /\ ~IsNotFound(raw)
    /\ \E t1 \in clock .. MaxClock : \E t2 \in t1 .. MaxClock :
          /\ doc' = transform(ip, raw, t1, t2)
          /\ clock' = t2
    /\ IF Persists
       THEN /\ pc' = "load"
            /\ calls' = calls \cup {"transform"}
            /\ UNCHANGED <<summary, idx>>
       ELSE /\ summary' = Append(summary, [ip |-> ip, status |-> "Dry-run"])
            /\ idx' = idx + 1
            /\ pc' = "loop"
            /\ calls' = calls \cup {"transform"}
    /\ UNCHANGED <<batchArgs, ip, extractLocals, raw, results, col, loadError>>

(* summary.append({"ip": ip, "status": "Inserted"}) *)
RecordInserted ==
    /\ summary' = Append(summary, [ip |-> ip, status |-> "Inserted"])
    /\ idx' = idx + 1
    /\ pc' = "loop"

(* load: insert_one succeeds *)
LoadInserts ==
    /\ pc = "load"
    /\ ~DuplicateKey(col, doc)
    /\ col' = Append(col, doc)
    /\ calls' = calls \cup {"load"}
    /\ RecordInserted
    /\ UNCHANGED <<batchArgs, ip, extractLocals, raw, doc, results, clock, loadError>>

(* load: insert_one raises DuplicateKeyError, which load swallows *)
LoadDuplicate ==
    /\ pc = "load"
    /\ DuplicateKey(col, doc)
    /\ calls' = calls \cup {"load"}
    /\ RecordInserted
    /\ UNCHANGED <<batchArgs, ip, extractLocals, raw, doc, results, col, clock,
                   loadError>>

(* load: insert_one raises another PyMongoError (connectivity, document    *)
(* validation, serialization); neither load nor run_batch catches it       *)
LoadFails ==
    /\ pc = "load"
    /\ calls' = calls \cup {"load"}
    /\ loadError' = "PyMongoError"
    /\ pc' = "aborted"
    /\ UNCHANGED <<batchArgs, idx, ip, extractLocals, raw, doc, summary, results, col,
                   clock>>

-----------------------------------------------------------------------------
(* The next-state relation *)

Next ==
    \/ ReturnSummary
    \/ SkipBlank
    \/ BeginExtract
    \/ GetNotFound
    \/ GetRateLimited
    \/ GetHTTPError
    \/ GetTransportFailure
    \/ GetMalformedJson
    \/ GetRecord
    \/ ExtractExhausted
    \/ RecordNotFound
    \/ Transform
    \/ LoadInserts
    \/ LoadDuplicate
    \/ LoadFails

Spec == Init /\ [][Next]_vars

-----------------------------------------------------------------------------
(* transform on its own: one call on any dict *)

InitTransform ==
    /\ cfg = [MAX_RETRIES |-> 1, INITIAL_BACKOFFS |-> 1]
    /\ ips = <<>>
    /\ dry_run = FALSE
    /\ pc = "transform"
    /\ idx = 1
    /\ ip = <<"a">>
    /\ attempt = 0
    /\ backoff = 0
    /\ raw \in TransformInputs(ip)
    /\ doc = None
    /\ summary = <<>>
    /\ results = <<>>
    /\ col = <<>>
    /\ clock = 1
    /\ gets = 0
    /\ sleeps = <<>>
    /\ retriedBy = ""
    /\ lastResp = ""
    /\ calls = {}
    /\ loadError = ""
    /\ args_ips = NoOverride
    /\ fs = NoFile

(* doc = self.transform(ip, raw) *)
CallTransform ==
    /\ pc = "transform"
    /\ \E t1 \in clock .. MaxClock : \E t2 \in t1 .. MaxClock :
          /\ doc' = transform(ip, raw, t1, t2)
          /\ clock' = t2
    /\ calls' = {"transform"}
    /\ pc' = "transformed"
    /\ UNCHANGED <<batchArgs, idx, ip, extractLocals, raw, summary, results, col,
                   loadError>>

NextTransform == CallTransform

SpecTransform == InitTransform /\ [][NextTransform]_vars

-----------------------------------------------------------------------------
(* parse_ips on its own: one call on any TARGET_IPS and any file *)

InitParse ==
    /\ \E t \in EnvStrings, f \in {"", InputPath} :
          cfg = [MAX_RETRIES |-> 1, INITIAL_BACKOFFS |-> 1,
                 TARGET_IPS |-> t, INPUT_FILE |-> f]
    /\ fs \in {NoFile} \cup
              (IF cfg.INPUT_FILE = "" THEN {}
               ELSE { File(l) : l \in SeqsUpTo(Lines, MaxLines) })
    /\ args_ips = NoOverride
    /\ ips = <<>>
    /\ dry_run = FALSE
    /\ pc = "parse"
    /\ idx = 1
    /\ ip = <<>>
    /\ attempt = 0
    /\ backoff = 0
    /\ raw = None
    /\ doc = None
    /\ summary = <<>>
    /\ results = <<>>
    /\ col = <<>>
    /\ clock = 1
    /\ gets = 0
    /\ sleeps = <<>>
    /\ retriedBy = ""
    /\ lastResp = ""
    /\ calls = {}
    /\ loadError = ""

(* ips = parse_ips(cfg["TARGET_IPS"], cfg["INPUT_FILE"]) *)
CallParseIps ==
    /\ pc = "parse"
    /\ ips' = parse_ips(cfg.TARGET_IPS, cfg.INPUT_FILE, fs)
    /\ pc' = "parsed"
    /\ UNCHANGED <<cfg, dry_run, args_ips, fs, idx, ip, extractLocals, raw, doc,
                   summary, results, col, clock, calls, loadError>>

NextParse == CallParseIps

SpecParse == InitParse /\ [][NextParse]_vars

-----------------------------------------------------------------------------
(* __main__: the command, from the parsed command line to its exit *)

(* Command lines: no --ips, --ips with no value, with a blank value, with *)
(* the same IP twice                                                      *)
CommandLines ==
    { NoOverride, Override(<<>>), Override(<< <<" ">> >>),
      Override(<< <<"b">>, <<"b">> >>) }

(* Values of TARGET_IPS, and files INPUT_FILE may name *)
MainEnvStrings == { <<>>, <<" ", ",">>, <<"b", ",", "a">> }
MainFiles == { NoFile, File(<< <<"#", "a">> >>), File(<< <<"a">> >>) }

InitMain ==
    /\ \E t \in MainEnvStrings, f \in {"", InputPath} :
          cfg = [MAX_RETRIES |-> 2, INITIAL_BACKOFFS |-> 1,
                 TARGET_IPS |-> t, INPUT_FILE |-> f]
    /\ fs \in IF cfg.INPUT_FILE = "" THEN {NoFile} ELSE MainFiles
    /\ args_ips \in CommandLines
    /\ dry_run \in BOOLEAN
    /\ ips = <<>>
    /\ pc = "main"
    /\ idx = 1
    /\ ip = <<>>
    /\ attempt = 0
    /\ backoff = 0
    /\ raw = None
    /\ doc = None
    /\ summary = <<>>
    /\ results = <<>>
    /\ col = <<>>
    /\ clock = 1
    /\ gets = 0
    /\ sleeps = <<>>
    /\ retriedBy = ""
    /\ lastResp = ""
    /\ calls = {}
    /\ loadError = ""

mainLocals ==
    <<cfg, dry_run, args_ips, fs, idx, ip, extractLocals, raw, doc, summary, results,
      col, clock, loadError>>

(* if args.ips: ips = args.ips; then the connector is constructed, which *)
(* creates the indexes in the store, and run_batch is called             *)
MainOverride ==
    /\ pc = "main"
    /\ Truthy(args_ips)
    /\ ips' = args_ips.values
    /\ calls' = {"create_index"}
    /\ pc' = "loop"
    /\ UNCHANGED mainLocals

(* else: ips = parse_ips(...), not empty; connector constructed, run_batch called *)
MainResolve ==
    /\ pc = "main"
    /\ ~Truthy(args_ips)
    /\ parse_ips(cfg.TARGET_IPS, cfg.INPUT_FILE, fs) # <<>>
    /\ ips' = parse_ips(cfg.TARGET_IPS, cfg.INPUT_FILE, fs)
    /\ calls' = {"create_index"}
    /\ pc' = "loop"
    /\ UNCHANGED mainLocals

(* if not ips: raise SystemExit(message), exit status 1 *)
MainNoIps ==
    /\ pc = "main"
    /\ ~Truthy(args_ips)
    /\ parse_ips(cfg.TARGET_IPS, cfg.INPUT_FILE, fs) = <<>>
    /\ ips' = <<>>
    /\ pc' = "SystemExit"
    /\ UNCHANGED <<mainLocals, calls>>

(* logging.info of the results; the script ends, exit status 0 *)
MainReport ==
    /\ pc = "done"
    /\ pc' = "exit_0"
    /\ UNCHANGED <<mainLocals, ips, calls>>

NextMain ==
    \/ MainOverride
    \/ MainResolve
    \/ MainNoIps
    \/ MainReport
    \/ Next

SpecMain == InitMain /\ [][NextMain]_vars

-----------------------------------------------------------------------------
(* Vocabulary of the properties *)

Last(s) == s[Len(s)]

RECURSIVE Pow2(_)
Pow2(n) == IF n <= 0 THEN 1 ELSE 2 * Pow2(n - 1)

(* The k-th delay of the backoff schedule: INITIAL_BACKOFF * 2^(k-1) *)
Schedule(k) == cfg.INITIAL_BACKOFFS * Pow2(k - 1)

(* The first n sleeps of the call follow the schedule *)
OnSchedule(sl) == \A k \in 1 .. Len(sl) : sl[k] = Schedule(k)

(* The IPs of the first n entries of ips that run_batch does not skip *)
Kept(n) ==
    LET nonBlank == SelectSeq(SubSeq(ips, 1, n), LAMBDA e : Strip(e) # <<>>)
    IN  [k \in 1 .. Len(nonBlank) |-> Strip(nonBlank[k])]

IpsOf(entries) == [k \in 1 .. Len(entries) |-> entries[k].ip]

ErrorEntry(i, cause) == [ip |-> i, status |-> "error", error |-> cause]

(* run_batch is between two ips, or has returned *)
BetweenIps == pc \in {"loop", "done"}

(* str(e) of the exception a GET that met kind raises *)
CauseOf(kind) ==
    CASE kind = "transport"  -> "ConnectionError"
      [] kind = "http_error" -> "HTTPError"
      [] kind = "bad_json"   -> "JSONDecodeError"
      [] OTHER               -> "Failed to fetch after retries"

-----------------------------------------------------------------------------
(* C1: a fetch error of one IP never aborts the batch.  Whenever extract   *)
(* raises (the call ends without returning a record), run_batch appends    *)
(* exactly one entry {ip, "error", str(cause)} for that IP and goes on to  *)
(* the next entry of ips; and a batch that returns has an entry for every  *)
(* IP it was given, those after a failed one included.                     *)
FetchErrorNeverAborts ==
    /\ [][ (pc = "attempt" /\ pc' \notin {"attempt", "fetched"}) =>
             /\ pc' = "loop"
             /\ idx' = idx + 1
             /\ summary' = Append(summary,
                    ErrorEntry(Strip(ips[idx]),
                               IF gets' = gets THEN CauseOf("") ELSE CauseOf(lastResp')))
          ]_vars
    /\ [](pc = "done" => IpsOf(results) = Kept(Len(ips)))

(* A batch has returned in which an IP was inserted after an earlier IP's *)
(* fetch had failed.                                                      *)
FetchErrorThenInserted ==
    /\ pc = "done"
    /\ Len(results) = 2
    /\ results[1].status = "error"
    /\ results[2].status = "Inserted"
    /\ Len(col) = 1

-----------------------------------------------------------------------------
(* C2: when insert_one hits the unique-key violation, nothing is stored   *)
(* and the entry appended for that IP has status Duplicate, not Inserted. *)
DuplicateIsReportedAsDuplicate ==
    [][ (pc = "load" /\ DuplicateKey(col, doc) /\ pc' = "loop") =>
           /\ col' = col
           /\ Last(summary').status = "Duplicate"
      ]_vars

-----------------------------------------------------------------------------
(* C3: a failure of insert_one other than a unique-key violation does not *)
(* abort the batch: run_batch goes on and the failed IP has its entry.    *)
StoreFailureDoesNotAbort ==
    loadError = "PyMongoError" =>
        /\ pc # "aborted"
        /\ summary # <<>>
        /\ Last(summary).ip = ip

-----------------------------------------------------------------------------
(* C4 as stated: a status other than 2xx, 404 and 429 ends extract at     *)
(* once: no sleep and no further GET follow it.                            *)
HTTPErrorIsNotRetried ==
    [][ (gets' = gets + 1 /\ lastResp' = "http_error") =>
           /\ pc' # "attempt"
           /\ sleeps' = sleeps
      ]_vars

(* C4, amended: the HTTPError such a status raises is caught like a        *)
(* transport failure.  On every attempt but the last, extract sleeps       *)
(* backoff, doubles it and goes to the next attempt; on the last attempt   *)
(* (attempt = MAX_RETRIES) the HTTPError is raised again with no sleep,    *)
(* and run_batch records it.                                               *)
HTTPErrorIsRetriedUntilLastAttempt ==
    [][ (gets' = gets + 1 /\ lastResp' = "http_error") =>
           IF attempt = cfg.MAX_RETRIES
           THEN /\ sleeps' = sleeps
                /\ pc' = "loop"
                /\ summary' = Append(summary, ErrorEntry(ip, "HTTPError"))
           ELSE /\ sleeps' = Append(sleeps, backoff)
                /\ backoff' = 2 * backoff
                /\ attempt' = attempt + 1
                /\ pc' = "attempt"
                /\ summary' = summary
      ]_vars

(* extract is about to send another GET after sleeping for HTTP errors only *)
RetryingAfterHTTPError ==
    /\ pc = "attempt"
    /\ lastResp = "http_error"
    /\ retriedBy = "http_error"
    /\ Len(sleeps) = 1
    /\ AttemptsLeft(attempt)

-----------------------------------------------------------------------------
(* C5: every sleep of an extract call follows the schedule, the k-th one   *)
(* lasting INITIAL_BACKOFFS * 2^(k-1); and an IP whose every attempt, all  *)
(* MAX_RETRIES of them, met a 429 ends with status error.                  *)
RateLimitedExhaustsWithBackoff ==
    /\ OnSchedule(sleeps)
    /\ (/\ pc # "attempt"
        /\ retriedBy = "429"
        /\ lastResp = "429"
        /\ Len(sleeps) = cfg.MAX_RETRIES)
       => /\ BetweenIps
          /\ gets = cfg.MAX_RETRIES
          /\ summary # <<>>
          /\ Last(summary) = ErrorEntry(ip, "Failed to fetch after retries")

(* An IP met a 429 on each of its two or more attempts and was recorded *)
(* as an error                                                          *)
RateLimitedExhausted ==
    /\ pc = "loop"
    /\ retriedBy = "429"
    /\ lastResp = "429"
    /\ cfg.MAX_RETRIES >= 2
    /\ Len(sleeps) = cfg.MAX_RETRIES
    /\ cfg.INITIAL_BACKOFFS = 3
    /\ Last(summary).status = "error"

-----------------------------------------------------------------------------
(* C6: a transport failure before the last attempt is followed by a sleep  *)
(* of the schedule's next delay and another attempt; one on the last       *)
(* attempt (attempt = MAX_RETRIES) ends the call with no sleep and no      *)
(* further GET, and the error recorded is the transport error.             *)
TransportFailureRetriedThenReraised ==
    lastResp = "transport" =>
        IF pc = "attempt"
        THEN /\ gets < cfg.MAX_RETRIES
             /\ attempt = gets + 1
             /\ Len(sleeps) = gets
             /\ Last(sleeps) = Schedule(gets)
             /\ backoff = Schedule(gets + 1)
        ELSE /\ BetweenIps
             /\ gets = cfg.MAX_RETRIES
             /\ Len(sleeps) = gets - 1
             /\ OnSchedule(sleeps)
             /\ summary # <<>>
             /\ Last(summary) = ErrorEntry(ip, "ConnectionError")

(* An IP's last attempt met a transport failure after an earlier one had *)
(* been retried                                                          *)
TransportFailureOnLastAttempt ==
    /\ pc = "loop"
    /\ lastResp = "transport"
    /\ retriedBy = "transport"
    /\ gets = cfg.MAX_RETRIES
    /\ Len(sleeps) >= 1

-----------------------------------------------------------------------------
(* C7: one extract call sends at most MAX_RETRIES GETs (none when          *)
(* MAX_RETRIES is below 1), whatever mix of 429s and failures it meets.    *)
AttemptsCapped ==
    /\ gets <= (IF cfg.MAX_RETRIES > 0 THEN cfg.MAX_RETRIES ELSE 0)
    /\ pc = "attempt" => attempt = gets + 1

(* A call used all its attempts on a mix of retry causes *)
AllAttemptsUsedOnMixedCauses ==
    /\ BetweenIps
    /\ cfg.MAX_RETRIES >= 2
    /\ gets = cfg.MAX_RETRIES
    /\ retriedBy = "mixed"

-----------------------------------------------------------------------------
(* C8: an IP whose GET met a 404 is recorded as Not Found and nothing is   *)
(* stored for it: extract returns the sentinel, run_batch calls neither    *)
(* transform nor load, also when earlier attempts were retried.            *)
NotFoundIsRecordedAndNotStored ==
    lastResp = "404" =>
        /\ pc \in {"fetched", "loop", "done"}
        /\ calls = {"extract"}
        /\ pc = "fetched" => raw = NotFoundRecord(ip)
        /\ BetweenIps =>
              /\ summary # <<>>
              /\ Last(summary) = [ip |-> ip, status |-> "Not Found"]
        /\ \A k \in 1 .. Len(col) : col[k].raw # None

(* A 404 that came after a retried 429 or transport failure was recorded *)
NotFoundAfterRetries ==
    /\ pc = "loop"
    /\ lastResp = "404"
    /\ retriedBy \in {"429", "transport"}
    /\ Last(summary).status = "Not Found"
    /\ ~dry_run

-----------------------------------------------------------------------------
(* C9: with dry_run, load is never called and the collection never         *)
(* changes, and every IP whose fetch returned a record has status Dry-run. *)
DryRunNeverWrites ==
    dry_run =>
        /\ col = <<>>
        /\ pc \notin {"load", "aborted"}
        /\ "load" \notin calls
        /\ (BetweenIps /\ lastResp = "ok") =>
              /\ summary # <<>>
              /\ Last(summary) = [ip |-> ip, status |-> "Dry-run"]
              /\ calls = {"extract", "transform"}

(* A dry run has returned with a fetched IP and a failed one *)
DryRunReturned ==
    /\ dry_run
    /\ pc = "done"
    /\ Len(results) = 2
    /\ results[1].status = "Dry-run"
    /\ results[2].status = "error"

-----------------------------------------------------------------------------
(* C10: IPs are processed one at a time in input order and every terminal  *)
(* state of an IP yields exactly one entry: while IP i is being processed  *)
(* the summary holds the entries of the IPs before it, in order, and once  *)
(* an IP has reached a terminal state (a store failure included) the       *)
(* summary holds its entry too; the summary is returned.                   *)
OneEntryPerIpInOrder ==
    /\ pc \in {"attempt", "fetched", "load"} => IpsOf(summary) = Kept(idx - 1)
    /\ pc = "loop" => IpsOf(summary) = Kept(idx - 1)
    /\ pc = "done" => IpsOf(results) = Kept(Len(ips))
    /\ pc = "aborted" => IpsOf(summary) = Kept(idx)
    /\ pc # "aborted"

-----------------------------------------------------------------------------
(* C11: every run ends with the summary returned to the caller, which     *)
(* reports it: a run that can take no further step has returned a summary *)
(* with an entry for every IP.                                            *)
RunEndsWithSummary ==
    \/ ENABLED Next
    \/ /\ pc = "done"
       /\ IpsOf(results) = Kept(Len(ips))

-----------------------------------------------------------------------------
(* C12 as stated: a 2xx with a malformed JSON body ends extract at once:  *)
(* no sleep and no further GET follow it.                                  *)
MalformedJsonIsNotRetried ==
    [][ (gets' = gets + 1 /\ lastResp' = "bad_json") =>
           /\ pc' # "attempt"
           /\ sleeps' = sleeps
      ]_vars

(* C12, amended: the error resp.json() raises on a malformed body either   *)
(* leaves extract at once and is recorded (a plain ValueError), or is      *)
(* caught as a RequestException and handled like a transport failure:      *)
(* a sleep of backoff, backoff doubled and another attempt, except on the  *)
(* last attempt, where it is raised again with no sleep.                   *)
MalformedJsonFailsOrIsRetried ==
    [][ (gets' = gets + 1 /\ lastResp' = "bad_json") =>
           \/ /\ sleeps' = sleeps
              /\ pc' = "loop"
              /\ summary' = Append(summary, ErrorEntry(ip, "JSONDecodeError"))
           \/ /\ attempt # cfg.MAX_RETRIES
              /\ sleeps' = Append(sleeps, backoff)
              /\ backoff' = 2 * backoff
              /\ attempt' = attempt + 1
              /\ pc' = "attempt"
              /\ summary' = summary
      ]_vars

(* extract is about to send another GET after sleeping for a malformed body *)
RetryingAfterMalformedJson ==
    /\ pc = "attempt"
    /\ lastResp = "bad_json"
    /\ retriedBy = "bad_json"
    /\ Len(sleeps) = 1
    /\ AttemptsLeft(attempt)

-----------------------------------------------------------------------------
(* C13: no two documents of the collection have the same (ip, fetched_at); *)
(* no step updates or deletes a document, the collection only grows; and   *)
(* an insert that meets an existing (ip, fetched_at) changes nothing.      *)
StoreKeysUniqueAndDocsKept ==
    /\ [](\A j, k \in 1 .. Len(col) :
            (col[j].ip = col[k].ip /\ col[j].fetched_at = col[k].fetched_at) => j = k)
    /\ [][ /\ Len(col') >= Len(col)
           /\ SubSeq(col', 1, Len(col)) = col
           /\ (pc = "load" /\ DuplicateKey(col, doc)) => col' = col
         ]_vars

(* The second insert of an (ip, fetched_at) was rejected: two IPs went *)
(* through load and one document is stored                             *)
DuplicateWasRejected ==
    /\ pc = "loop"
    /\ Len(summary) = 2
    /\ summary[1].status = "Inserted"
    /\ summary[2].status = "Inserted"
    /\ Len(col) = 1

-----------------------------------------------------------------------------
(* C16: in every document transform has produced, fetched_at and *)
(* ingested_at are the same instant.                             *)
TimestampsAreEqual ==
    doc # None => doc.fetched_at = doc.ingested_at

-----------------------------------------------------------------------------
(* C18: within one extract call the two retry causes share one backoff:   *)
(* the k-th sleep lasts INITIAL_BACKOFFS * 2^(k-1) whatever caused it and  *)
(* the next one will last the schedule's next delay; and each call starts  *)
(* again from INITIAL_BACKOFFS, whatever earlier IPs consumed.             *)
BackoffSharedAndResetPerIp ==
    pc = "attempt" =>
        /\ \A k \in 1 .. Len(sleeps) : sleeps[k] = cfg.INITIAL_BACKOFFS * Pow2(k - 1)
        /\ backoff = cfg.INITIAL_BACKOFFS * Pow2(Len(sleeps))
        /\ gets = 0 => backoff = cfg.INITIAL_BACKOFFS
        /\ Len(sleeps) = gets

(* The second IP of a batch has slept once, after the first IP had used up *)
(* its retries on sleeps                                                   *)
SecondIpSleepsFromInitialBackoff ==
    /\ pc = "attempt"
    /\ idx = 2
    /\ Len(summary) = 1
    /\ summary[1].status = "error"
    /\ summary[1].error = "Failed to fetch after retries"
    /\ cfg.MAX_RETRIES = 2
    /\ sleeps = <<cfg.INITIAL_BACKOFFS>>
    /\ lastResp = "transport"

-----------------------------------------------------------------------------
(* C19: a call whose last attempt met a 429 has slept after it, once per   *)
(* attempt, and fails with "Failed to fetch after retries"; a call whose   *)
(* last attempt met a transport failure has not slept after it, one sleep  *)
(* less than attempts, and fails with the transport error.                 *)
SleepsAtExhaustionDependOnCause ==
    (BetweenIps /\ gets >= 1 /\ gets = cfg.MAX_RETRIES) =>
        /\ lastResp = "429" =>
              /\ Len(sleeps) = cfg.MAX_RETRIES
              /\ Last(summary) = ErrorEntry(ip, "Failed to fetch after retries")
        /\ lastResp = "transport" =>
              /\ Len(sleeps) = cfg.MAX_RETRIES - 1
              /\ Last(summary) = ErrorEntry(ip, "ConnectionError")

(* A call slept after the 429 of its last attempt, an earlier attempt *)
(* having met a transport failure                                     *)
SleptAfterFinalRateLimit ==
    /\ pc = "loop"
    /\ lastResp = "429"
    /\ retriedBy = "mixed"
    /\ gets = cfg.MAX_RETRIES
    /\ Len(sleeps) = gets

-----------------------------------------------------------------------------
(* C20: with MAX_RETRIES configured as 0 or less, no GET is sent and no   *)
(* sleep made, every IP is recorded as error "Failed to fetch after       *)
(* retries", and neither transform nor load is ever called.               *)
NoAttemptsWhenRetriesNotPositive ==
    cfg.MAX_RETRIES <= 0 =>
        /\ gets = 0
        /\ sleeps = <<>>
        /\ col = <<>>
        /\ doc = None
        /\ calls \subseteq {"extract"}
        /\ pc \in {"loop", "attempt", "done"}
        /\ \A k \in 1 .. Len(summary) :
              /\ summary[k].status = "error"
              /\ summary[k].error = "Failed to fetch after retries"
        /\ pc = "loop" => IpsOf(summary) = Kept(idx - 1)
        /\ pc = "done" => IpsOf(results) = Kept(Len(ips))

(* A batch of two IPs has returned under a negative MAX_RETRIES *)
NegativeRetriesBatchReturned ==
    /\ cfg.MAX_RETRIES < 0
    /\ pc = "done"
    /\ Len(results) = 2
    /\ ~dry_run

-----------------------------------------------------------------------------
(* C15: the document's internet_scanner_summary is None exactly when the   *)
(* raw record has no internet_scanner_intelligence key; when it has the    *)
(* key, the summary is a structure of the eight summary fields, each the   *)
(* block's value for it or None.                                           *)
ScannerFields ==
    {"seen", "classification", "first_seen", "last_seen", "actor", "bot", "vpn", "tags"}

ScannerSummaryOnlyWhenKeyPresent ==
    pc = "transformed" =>
        IF "internet_scanner_intelligence" \notin DOMAIN raw
        THEN doc.internet_scanner_summary = None
        ELSE LET isc == raw["internet_scanner_intelligence"]
                 sum == doc.internet_scanner_summary
             IN  /\ sum # None
                 /\ DOMAIN sum = ScannerFields
                 /\ \A f \in ScannerFields :
                       sum[f] = IF isc # None /\ f \in DOMAIN isc THEN isc[f] ELSE None

(* transform was given the record {"ip": ip} *)
TransformedBareRecord ==
    /\ pc = "transformed"
    /\ DOMAIN raw = {"ip"}
    /\ raw["ip"] = ip
    /\ doc.internet_scanner_summary = None
    /\ doc.raw = raw

-----------------------------------------------------------------------------
(* C14: the list parse_ips returns has no repeated element; its elements  *)
(* are exactly the trimmed non-empty pieces of the inline list and the    *)
(* trimmed non-blank, non-comment lines of the file; they stand in the    *)
(* order of their first occurrence, the inline list before the file; and  *)
(* resolving the result again (deduplicating it, or passing it as an      *)
(* inline list when no element holds a comma) returns it unchanged.       *)


(* The entries of the inline list, each with the position its piece starts *)
(* at: the trimmed, non-empty maximal comma-free stretches of TARGET_IPS   *)
InlineEntries ==
    LET t == cfg.TARGET_IPS
        stretches ==
            { p \in (1 .. Len(t) + 1) \X (0 .. Len(t)) :
                  /\ p[2] >= p[1] - 1
                  /\ p[1] = 1 \/ t[p[1] - 1] = ","
                  /\ p[2] = Len(t) \/ t[p[2] + 1] = ","
                  /\ \A k \in p[1] .. p[2] : t[k] # "," }
    IN  { e \in { <<p[1], Strip(SubSeq(t, p[1], p[2]))>> : p \in stretches } :
              e[2] # <<>> }

(* The entries of the file, each with a position after the inline list's: *)
(* its trimmed lines that are neither blank nor comments                  *)
FileLineEntries ==
    IF cfg.INPUT_FILE # "" /\ fs.exists
    THEN { e \in { <<Len(cfg.TARGET_IPS) + 1 + k, Strip(fs.lines[k])>> :
                       k \in 1 .. Len(fs.lines) } :
               e[2] # <<>> /\ e[2][1] # "#" }
    ELSE {}

FirstOccurrence(v) ==
    LET at == { e[1] : e \in { x \in InlineEntries \cup FileLineEntries : x[2] = v } }
    IN  CHOOSE a \in at : \A b \in at : a <= b

(* ",".join(l) *)
RECURSIVE JoinCommas(_)
JoinCommas(l) ==
    IF l = <<>> THEN <<>>
    ELSE IF Len(l) = 1 THEN l[1]
    ELSE l[1] \o <<",">> \o JoinCommas(Tail(l))

ParseIpsResolves ==
    pc = "parsed" =>
        /\ \A j, k \in 1 .. Len(ips) : ips[j] = ips[k] => j = k
        /\ { ips[k] : k \in 1 .. Len(ips) }
             = { e[2] : e \in InlineEntries \cup FileLineEntries }
        /\ \A j, k \in 1 .. Len(ips) :
              j < k => FirstOccurrence(ips[j]) < FirstOccurrence(ips[k])
        /\ Dedupe(ips, {}, <<>>) = ips
        /\ (\A k \in 1 .. Len(ips) : \A c \in 1 .. Len(ips[k]) : ips[k][c] # ",")
              => parse_ips(JoinCommas(ips), "", NoFile) = ips
        /\ (\A k \in 1 .. Len(ips) : ips[k][1] # "#")
              => parse_ips(<<>>, InputPath, File(ips)) = ips

(* An inline list with a repeated entry and a file with the same entry, *)
(* padded, and a new one have been resolved                             *)
ResolvedInlineListAndFile ==
    /\ pc = "parsed"
    /\ cfg.TARGET_IPS = <<"b", ",", "b">>
    /\ cfg.INPUT_FILE = InputPath
    /\ fs = File(<< <<" ", "b", " ">>, <<"a">> >>)
    /\ ips = << <<"b">>, <<"a">> >>

-----------------------------------------------------------------------------
(* C17: once the command has resolved its IPs, if none of them is an IP   *)
(* (the list is empty or holds only blank entries) the command has ended  *)
(* with a non-zero status, and the store was never accessed.              *)
NoIpsExitsNonZeroBeforeAnyAccess ==
    (pc # "main" /\ Kept(Len(ips)) = <<>>) =>
        /\ pc = "SystemExit"
        /\ "create_index" \notin calls
        /\ gets = 0

====
